---- MODULE Spec2Model ----
(***************************************************************************)
(* The persistent audit store (services/data_service.py) of the Perplexity *)
(* dashboard: the request-log and saved-prompt collections, each a JSON    *)
(* file that every mutating operation reads whole, modifies in memory and  *)
(* writes whole.                                                           *)
(***************************************************************************)
EXTENDS Integers, Sequences, FiniteSets, TLC

VARIABLES
    requestsFile,   \* content of data/api_requests.json (a list of dicts)
    promptsFile,    \* content of data/saved_prompts.json (a list of dicts)
    nextUuid,       \* the next value uuid.uuid4() hands out
    last,           \* the last call made on the store: operation, arguments, result
    calls,          \* history: per prompt id, the update_prompt_usage calls made on it
    sess,           \* the sessions running log_request step by step
    responsesFile,  \* content of data/saved_responses.json (a list of dicts)
    io,             \* whether the read and the write of the last store call succeeded
    client          \* the PerplexityService and the call it is in

vars == <<requestsFile, promptsFile, nextUuid, last, calls, sess,
          responsesFile, io, client>>

-----------------------------------------------------------------------------
(* Bounds of the model *)

\* at most this many entries are logged
MaxLog == 2
\* at most this many prompts are saved by save_prompt
MaxPrompts == 1
\* at most this many update_prompt_usage calls per prompt
MaxUses == 3

-----------------------------------------------------------------------------
(* Python values *)

\* Python's None, and a value that is not None
None == [isNone |-> TRUE]
Some(x) == [isNone |-> FALSE, val |-> x]

\* datetime: a day count and the microsecond within it
DateTime(d, us) == [day |-> d, usec |-> us]

\* datetime.isoformat(): a string compared character by character; the fraction
\* is left out when the microsecond is 0.  The string is modelled by the
\* sequence of its numeric parts, whose lexicographic order is the string's.
isoformat(dt) == IF dt.usec = 0 THEN <<dt.day>> ELSE <<dt.day, dt.usec>>

\* datetime.fromisoformat()
fromisoformat(s) == IF Len(s) = 1 THEN DateTime(s[1], 0) ELSE DateTime(s[1], s[2])

\* timedelta(days=7)
SevenDays == 7

\* dt1 >= dt2 on datetimes
DateTimeGE(a, b) == a.day > b.day \/ (a.day = b.day /\ a.usec >= b.usec)

\* str >= str on isoformat strings (lexicographic, a proper prefix is smaller)
RECURSIVE StrLess(_, _)
StrLess(a, b) ==
    IF b = <<>> THEN FALSE
    ELSE IF a = <<>> THEN TRUE
    ELSE IF Head(a) # Head(b) THEN Head(a) < Head(b)
    ELSE StrLess(Tail(a), Tail(b))

\* the instants datetime.now() returns in the model
Instants == {DateTime(1, 5), DateTime(2, 0)}
\* the instants at which requests are logged
LogInstants == {DateTime(2, 0)}
\* the instants at which statistics are asked for
StatInstants == {DateTime(2, 0), DateTime(9, 0)}

-----------------------------------------------------------------------------
(* models/api_models.py *)

PerplexityMessage(role, content) == [role |-> role, content |-> content]

PerplexityUsage(p, c, t) ==
    [prompt_tokens |-> p, completion_tokens |-> c, total_tokens |-> t]

PerplexityChoice(index, finish_reason, message) ==
    [index |-> index, finish_reason |-> finish_reason, message |-> message]

PerplexitySearchResult(title, url, snippet) ==
    [title |-> title, url |-> url, snippet |-> snippet]

\* the fields of PerplexityRequest the store reads
PerplexityRequest(model, messages) == [model |-> model, messages |-> messages]

PerplexityResponse(id, choices, usage, search_results) ==
    [id |-> id, object |-> "chat.completion", created |-> 0, model |-> "sonar",
     choices |-> choices, usage |-> usage, search_results |-> search_results,
     related_questions |-> None, citations |-> None]

\* the dataclass default of ApiRequestLog.status
DefaultStatus == "pending"

\* ApiRequestLog(id, timestamp, model, prompt, request_json, status=...).to_dict():
\* every other field keeps its dataclass default, the timestamp is isoformat()ted
ApiRequestLog_to_dict(id, timestamp, model, prompt, request_json, status) ==
    [id |-> id,
     timestamp |-> isoformat(timestamp),
     model |-> model,
     prompt |-> prompt,
     request_json |-> request_json,
     response_json |-> None,
     response_id |-> None,
     response_content |-> None,
     prompt_tokens |-> None,
     completion_tokens |-> None,
     total_tokens |-> None,
     status |-> status,
     error_message |-> None,
     duration_ms |-> None,
     search_results |-> <<>>]

-----------------------------------------------------------------------------
(* The inputs of the model *)

SampleRequests ==
    {PerplexityRequest("sonar", <<>>),
     PerplexityRequest("sonar-pro",
        <<PerplexityMessage("user", "p1"), PerplexityMessage("assistant", "p2")>>)}

SampleModels == {"sonar", "sonar-pro"}

SamplePayloads == {"{request}"}

SampleResponses ==
    {PerplexityResponse("resp-a", <<>>, PerplexityUsage(0, 0, 0), None),
     PerplexityResponse("resp-b",
        <<PerplexityChoice(0, "stop", PerplexityMessage("assistant", "answer"))>>,
        PerplexityUsage(10, 20, 30),
        Some(<<PerplexitySearchResult("t", "u", "s")>>))}

SampleErrors == {"Request timed out"}

SampleDurations == {7}

-----------------------------------------------------------------------------
(* DataService: the files *)

\* _load_json: the parsed content, or [] when the read fails
\* (the collections here are never the config file)
_load_json(content, ok) == IF ok THEN content ELSE <<>>

\* _save_json: the file holds the data, or is left alone when the write fails
_save_json(content, data, ok) == IF ok THEN data ELSE content

\* str(uuid.uuid4()): a value no earlier call returned.  The ids are the
\* naturals from 1 in the order of their creation; 0 is an id never handed out.
uuid4 == nextUuid

\* the least index of a dict with this id (the loops stop at the first), 0 if none
FirstIndex(list, id) ==
    LET hits == {i \in DOMAIN list : list[i].id = id}
    IN IF hits = {} THEN 0 ELSE CHOOSE i \in hits : \A j \in hits : i <= j

-----------------------------------------------------------------------------
(* DataService: the request log *)

\* log_request building the entry without status='sent' and from the last message
log_entry_dict_pending(request_id, now, request, request_json) ==
    ApiRequestLog_to_dict(
        request_id,
        now,
        request.model,
        IF request.messages # <<>>
        THEN request.messages[Len(request.messages)].content ELSE "",
        request_json,
        DefaultStatus)

\* log_request, lines 140-149: the dict of the new entry
log_entry_dict(request_id, now, request, request_json) ==
    ApiRequestLog_to_dict(
        request_id,
        now,
        request.model,
        IF request.messages # <<>> THEN request.messages[1].content ELSE "",
        request_json,
        "sent")

\* log_request saving the new entry alone, without the entries loaded
log_request_file_overwriting(content, log_entry, rd, wr) ==
    _save_json(content, <<log_entry>>, wr)

\* log_request, lines 151-153: load, append, save
log_request_file(content, log_entry, rd, wr) ==
    LET requests == _load_json(content, rd)
    IN _save_json(content, Append(requests, log_entry), wr)

\* update_response also taking the model from the response
response_fields_with_model(request, response, response_json, duration_ms) ==
    [request EXCEPT
        !.response_json = Some(response_json),
        !.response_id = Some(response.id),
        !.model = response.model,
        !.status = "completed",
        !.duration_ms = Some(duration_ms)]

\* update_response, lines 163-181: the assignments to the dict found
response_fields(request, response, response_json, duration_ms) ==
    LET filled ==
            [request EXCEPT
                !.response_json = Some(response_json),
                !.response_id = Some(response.id),
                !.response_content =
                    Some(IF response.choices # <<>>
                         THEN response.choices[1].message.content ELSE ""),
                !.prompt_tokens = Some(response.usage.prompt_tokens),
                !.completion_tokens = Some(response.usage.completion_tokens),
                !.total_tokens = Some(response.usage.total_tokens),
                !.status = "completed",
                !.duration_ms = Some(duration_ms)]
        sr == response.search_results
    IN IF sr # None /\ sr.val # <<>>
       THEN [filled EXCEPT !.search_results =
                [i \in DOMAIN sr.val |->
                    [title |-> sr.val[i].title, url |-> sr.val[i].url,
                     snippet |-> sr.val[i].snippet]]]
       ELSE filled

\* update_response adding an entry when it finds none with the id
update_response_file_upsert(content, request_id, response, response_json, duration_ms, rd, wr) ==
    LET requests == _load_json(content, rd)
        i == FirstIndex(requests, request_id)
        blank == ApiRequestLog_to_dict(request_id, DateTime(2, 0), "", "", "", "sent")
        changed ==
            IF i = 0
            THEN Append(requests,
                        response_fields(blank, response, response_json, duration_ms))
            ELSE [requests EXCEPT
                    ![i] = response_fields(@, response, response_json, duration_ms)]
    IN _save_json(content, changed, wr)

\* update_response, lines 159-185: load, change the first dict with the id, save
update_response_file(content, request_id, response, response_json, duration_ms, rd, wr) ==
    LET requests == _load_json(content, rd)
        i == FirstIndex(requests, request_id)
        changed ==
            IF i = 0 THEN requests
            ELSE [requests EXCEPT
                    ![i] = response_fields(@, response, response_json, duration_ms)]
    IN _save_json(content, changed, wr)

\* update_error, lines 193-195: the assignments to the dict found
error_fields(request, error_message, duration_ms) ==
    [request EXCEPT
        !.status = "error",
        !.error_message = Some(error_message),
        !.duration_ms = Some(duration_ms)]

\* update_error, lines 189-198
update_error_file(content, request_id, error_message, duration_ms, rd, wr) ==
    LET requests == _load_json(content, rd)
        i == FirstIndex(requests, request_id)
        changed ==
            IF i = 0 THEN requests
            ELSE [requests EXCEPT ![i] = error_fields(@, error_message, duration_ms)]
    IN _save_json(content, changed, wr)

\* list.sort(key=lambda x: x[key], reverse=True): stable, greatest key first
RECURSIVE InsertDesc(_, _, _)
InsertDesc(sorted, x, key) ==
    IF sorted = <<>> THEN <<x>>
    ELSE IF StrLess(Head(sorted)[key], x[key]) THEN <<x>> \o sorted
    ELSE <<Head(sorted)>> \o InsertDesc(Tail(sorted), x, key)

RECURSIVE SortDesc(_, _)
SortDesc(list, key) ==
    IF list = <<>> THEN <<>>
    ELSE InsertDesc(SortDesc(SubSeq(list, 1, Len(list) - 1), key), list[Len(list)], key)

\* list[:limit] for limit >= 0
Slice(list, limit) == SubSeq(list, 1, IF limit < Len(list) THEN limit ELSE Len(list))

\* get_recent_requests taking the first limit entries of the file, then sorting
get_recent_requests_of_slicing_first(content, limit, rd) ==
    SortDesc(Slice(_load_json(content, rd), limit), "timestamp")

\* get_recent_requests, lines 203-206
get_recent_requests_of(content, limit, rd) ==
    Slice(SortDesc(_load_json(content, rd), "timestamp"), limit)

\* get_requests_by_model, lines 210-213
get_requests_by_model_of(content, model, limit, rd) ==
    LET requests == _load_json(content, rd)
        filtered == SelectSeq(requests, LAMBDA r : r.model = model)
    IN Slice(SortDesc(filtered, "timestamp"), limit)

\* get_request_by_id, lines 217-221
get_request_by_id_of(content, request_id, rd) ==
    LET requests == _load_json(content, rd)
        i == FirstIndex(requests, request_id)
    IN IF i = 0 THEN None ELSE Some(requests[i])

-----------------------------------------------------------------------------
(* DataService.get_usage_statistics *)

RECURSIVE Gcd(_, _)
Gcd(a, b) == IF b = 0 THEN a ELSE Gcd(b, a % b)

\* a number: the fraction num/den in lowest terms (Python's int 0 is 0/1)
Rat(n, d) == LET g == Gcd(n, d) IN IF g = 0 THEN [num |-> 0, den |-> 1]
                                   ELSE [num |-> n \div g, den |-> d \div g]

\* a / b: a number, or ZeroDivisionError
TrueDiv(a, b) == IF b = 0 THEN [raised |-> "ZeroDivisionError"]
                 ELSE [raised |-> "", value |-> Rat(a, b)]

\* r.get('total_tokens') is truthy: neither None nor 0
Truthy(x) == x # None /\ x.val # 0

\* the sum taken over the completed entries only
RECURSIVE sum_total_tokens_completed(_)
sum_total_tokens_completed(requests) ==
    IF requests = <<>> THEN 0
    ELSE (IF Head(requests).status = "completed"
             /\ Truthy(Head(requests).total_tokens)
          THEN Head(requests).total_tokens.val ELSE 0)
         + sum_total_tokens_completed(Tail(requests))

\* line 229: sum(r.get('total_tokens', 0) for r in requests if r.get('total_tokens'))
RECURSIVE sum_total_tokens(_)
sum_total_tokens(requests) ==
    IF requests = <<>> THEN 0
    ELSE (IF Truthy(Head(requests).total_tokens)
          THEN Head(requests).total_tokens.val ELSE 0)
         + sum_total_tokens(Tail(requests))

\* line 228: len([r for r in requests if r['status'] == 'completed'])
count_completed(requests) ==
    Len(SelectSeq(requests, LAMBDA r : r.status = "completed"))

\* lines 233-236: the dict model -> count built by the loop
RECURSIVE model_usage_loop(_, _)
model_usage_loop(requests, model_usage) ==
    IF requests = <<>> THEN model_usage
    ELSE LET model == Head(requests).model
             old == IF model \in DOMAIN model_usage THEN model_usage[model] ELSE 0
         IN model_usage_loop(
                Tail(requests),
                [m \in DOMAIN model_usage \cup {model} |->
                    IF m = model THEN old + 1 ELSE model_usage[m]])

\* line 230: (completed_requests / total_requests * 100) if total_requests > 0 else 0
success_rate_of(completed_requests, total_requests) ==
    IF total_requests > 0
    THEN LET q == TrueDiv(completed_requests, total_requests)
         IN IF q.raised # "" THEN q
            ELSE [raised |-> "", value |-> Rat(q.value.num * 100, q.value.den)]
    ELSE [raised |-> "", value |-> Rat(0, 1)]

\* the average guarded by total_tokens instead of completed_requests
avg_tokens_of_guarding_tokens(total_tokens, completed_requests) ==
    IF total_tokens > 0
    THEN TrueDiv(total_tokens, completed_requests)
    ELSE [raised |-> "", value |-> Rat(0, 1)]

\* line 253: total_tokens / completed_requests if completed_requests > 0 else 0
avg_tokens_of(total_tokens, completed_requests) ==
    IF completed_requests > 0
    THEN TrueDiv(total_tokens, completed_requests)
    ELSE [raised |-> "", value |-> Rat(0, 1)]

\* lines 240-244: the entries whose timestamp is within the last 7 days
recent_requests_of(requests, now) ==
    LET recent_date == DateTime(now.day - SevenDays, now.usec)
    IN SelectSeq(requests,
                 LAMBDA r : DateTimeGE(fromisoformat(r.timestamp), recent_date))

\* get_usage_statistics, lines 225-254: the dict returned, or the exception raised
get_usage_statistics_of(content, now, rd) ==
    LET requests == _load_json(content, rd)
        total_requests == Len(requests)
        completed_requests == count_completed(requests)
        total_tokens == sum_total_tokens(requests)
        success_rate == success_rate_of(completed_requests, total_requests)
        avg == avg_tokens_of(total_tokens, completed_requests)
    IN IF success_rate.raised # "" THEN [raised |-> success_rate.raised]
       ELSE IF avg.raised # "" THEN [raised |-> avg.raised]
       ELSE [raised |-> "",
             total_requests |-> total_requests,
             completed_requests |-> completed_requests,
             total_tokens |-> total_tokens,
             success_rate |-> success_rate.value,
             model_usage |-> model_usage_loop(requests, <<>>),
             recent_requests |-> Len(recent_requests_of(requests, now)),
             avg_tokens_per_request |-> avg.value]

-----------------------------------------------------------------------------
(* DataService: the saved prompts *)

\* _get_default_prompts, lines 77-118: four templates, each with a new uuid
_get_default_prompts(now) ==
    LET template(id, name, description, category) ==
            [id |-> id, name |-> name, description |-> description,
             content |-> name, category |-> category,
             created_at |-> isoformat(now), last_used |-> None, usage_count |-> 0]
    IN <<template(1, "Research Analysis",
                  "Comprehensive research analysis template", "Research"),
         template(2, "Market Analysis",
                  "Stock market and financial analysis template", "Finance"),
         template(3, "News Summary", "Daily news summary template", "News"),
         template(4, "Technical Analysis",
                  "Technical programming analysis template", "Technology")>>

\* save_prompt, lines 266-275: the dict of the new prompt
new_prompt_dict(prompt_id, name, content, description, category, now) ==
    [id |-> prompt_id, name |-> name, description |-> description,
     content |-> content, category |-> category,
     created_at |-> isoformat(now), last_used |-> None, usage_count |-> 0]

\* save_prompt, lines 263, 277-278: load, append, save
save_prompt_file(content, new_prompt, rd, wr) ==
    LET prompts == _load_json(content, rd)
    IN _save_json(content, Append(prompts, new_prompt), wr)

\* update_prompt_usage setting the count to 1 instead of adding 1
usage_fields_reset(prompt, now) ==
    [prompt EXCEPT
        !.last_used = Some(isoformat(now)),
        !.usage_count = 1]

\* update_prompt_usage, lines 288-289: the assignments to the dict found
usage_fields(prompt, now) ==
    [prompt EXCEPT
        !.last_used = Some(isoformat(now)),
        !.usage_count = prompt.usage_count + 1]

\* update_prompt_usage, lines 284-292
update_prompt_usage_file(content, prompt_id, now, rd, wr) ==
    LET prompts == _load_json(content, rd)
        i == FirstIndex(prompts, prompt_id)
        changed == IF i = 0 THEN prompts
                   ELSE [prompts EXCEPT ![i] = usage_fields(@, now)]
    IN _save_json(content, changed, wr)

\* delete_prompt keeping the prompts with the id instead of the others
delete_prompt_file_inverted(content, prompt_id, rd, wr) ==
    LET prompts == _load_json(content, rd)
        kept == SelectSeq(prompts, LAMBDA p : p.id = prompt_id)
    IN _save_json(content, kept, wr)

\* delete_prompt, lines 296-298
delete_prompt_file(content, prompt_id, rd, wr) ==
    LET prompts == _load_json(content, rd)
        kept == SelectSeq(prompts, LAMBDA p : p.id # prompt_id)
    IN _save_json(content, kept, wr)

\* the prompts save_prompt is called with: name, content, description, category
SamplePrompts ==
    {<<"mine", "tell me", "", "Custom">>, <<"other", "explain", "why", "Work">>}

-----------------------------------------------------------------------------
(* The store after construction *)

Sessions == {1, 2}

\* the instant of construction
ConstructedAt == DateTime(1, 5)

\* a session that has not called log_request yet
IdleSession == [pc |-> "idle", request_id |-> 0, log_entry |-> None, requests |-> <<>>]

\* DataService.__init__ / _init_files on an empty data directory: the request
\* log is [], the prompts are the default templates
Init ==
    /\ requestsFile = <<>>
    /\ promptsFile = _get_default_prompts(ConstructedAt)
    /\ nextUuid = Len(promptsFile) + 1
    /\ last = [op |-> "__init__"]
    /\ calls = [id \in 1..Len(promptsFile) |-> [n |-> 0, at |-> None]]
    /\ sess = [s \in Sessions |-> IdleSession]
    /\ responsesFile = <<>>
    /\ io = [rd |-> TRUE, wr |-> TRUE]
    /\ client = [pc |-> "idle"]

\* the first uuid handed out after construction
FirstUuid == Len(_get_default_prompts(ConstructedAt)) + 1

\* the ids the request-log operations are called with: one never handed out,
\* and those handed out since construction
RequestArgIds == {0} \cup (FirstUuid .. nextUuid - 1)

\* the ids the prompt operations are called with: one never handed out, the
\* first default template's, and those of the prompts saved since construction
PromptArgIds == {0, 1} \cup (FirstUuid .. nextUuid - 1)

SampleLimits == {1, 2}

-----------------------------------------------------------------------------
(* The request-log operations, each run to completion (one session) *)

log_request(request, request_json, now, rd, wr) ==
    /\ Len(requestsFile) < MaxLog
    /\ LET request_id == uuid4
           log_entry == log_entry_dict(request_id, now, request, request_json)
       IN /\ requestsFile' = log_request_file(requestsFile, log_entry, rd, wr)
          /\ nextUuid' = nextUuid + 1
          /\ last' = [op |-> "log_request", request |-> request,
                      request_json |-> request_json, now |-> now,
                      raised |-> "", ret |-> request_id]
    /\ io' = [rd |-> rd, wr |-> wr]
    /\ UNCHANGED <<promptsFile, calls, sess, responsesFile, client>>

update_response(request_id, response, response_json, duration_ms, rd, wr) ==
    /\ requestsFile' = update_response_file(requestsFile, request_id, response,
                                            response_json, duration_ms, rd, wr)
    /\ last' = [op |-> "update_response", request_id |-> request_id,
                raised |-> "", ret |-> None]
    /\ io' = [rd |-> rd, wr |-> wr]
    /\ UNCHANGED <<promptsFile, nextUuid, calls, sess, responsesFile, client>>

update_error(request_id, error_message, duration_ms, rd, wr) ==
    /\ requestsFile' = update_error_file(requestsFile, request_id, error_message,
                                         duration_ms, rd, wr)
    /\ last' = [op |-> "update_error", request_id |-> request_id,
                raised |-> "", ret |-> None]
    /\ io' = [rd |-> rd, wr |-> wr]
    /\ UNCHANGED <<promptsFile, nextUuid, calls, sess, responsesFile, client>>

get_recent_requests(limit, rd) ==
    /\ last' = [op |-> "get_recent_requests", limit |-> limit, raised |-> "",
                ret |-> get_recent_requests_of(requestsFile, limit, rd)]
    /\ io' = [rd |-> rd, wr |-> TRUE]
    /\ UNCHANGED <<requestsFile, promptsFile, nextUuid, calls, sess, responsesFile, client>>

get_requests_by_model(model, limit, rd) ==
    /\ last' = [op |-> "get_requests_by_model", model |-> model, limit |-> limit,
                raised |-> "",
                ret |-> get_requests_by_model_of(requestsFile, model, limit, rd)]
    /\ io' = [rd |-> rd, wr |-> TRUE]
    /\ UNCHANGED <<requestsFile, promptsFile, nextUuid, calls, sess, responsesFile, client>>

get_request_by_id(request_id, rd) ==
    /\ last' = [op |-> "get_request_by_id", request_id |-> request_id,
                raised |-> "",
                ret |-> get_request_by_id_of(requestsFile, request_id, rd)]
    /\ io' = [rd |-> rd, wr |-> TRUE]
    /\ UNCHANGED <<requestsFile, promptsFile, nextUuid, calls, sess, responsesFile, client>>

get_usage_statistics(now, rd) ==
    /\ LET stats == get_usage_statistics_of(requestsFile, now, rd)
       IN last' = [op |-> "get_usage_statistics", now |-> now,
                   raised |-> stats.raised, ret |-> stats]
    /\ io' = [rd |-> rd, wr |-> TRUE]
    /\ UNCHANGED <<requestsFile, promptsFile, nextUuid, calls, sess, responsesFile, client>>

Next ==
    \/ \E request \in SampleRequests, request_json \in SamplePayloads,
          now \in LogInstants :
            log_request(request, request_json, now, TRUE, TRUE)
    \/ \E request_id \in RequestArgIds, response \in SampleResponses,
          duration_ms \in SampleDurations :
            update_response(request_id, response, "{response}", duration_ms,
                            TRUE, TRUE)
    \/ \E request_id \in RequestArgIds, error_message \in SampleErrors,
          duration_ms \in SampleDurations :
            update_error(request_id, error_message, duration_ms, TRUE, TRUE)
    \/ \E limit \in SampleLimits : get_recent_requests(limit, TRUE)
    \/ \E model \in SampleModels, limit \in SampleLimits :
            get_requests_by_model(model, limit, TRUE)
    \/ \E request_id \in RequestArgIds : get_request_by_id(request_id, TRUE)
    \/ \E now \in StatInstants : get_usage_statistics(now, TRUE)

\* one session working on the request log, every read and write succeeding
Spec == Init /\ [][Next]_vars

-----------------------------------------------------------------------------
(* The prompt operations, each run to completion (one session) *)

get_saved_prompts(rd) ==
    /\ last' = [op |-> "get_saved_prompts", raised |-> "",
                ret |-> _load_json(promptsFile, rd)]
    /\ io' = [rd |-> rd, wr |-> TRUE]
    /\ UNCHANGED <<requestsFile, promptsFile, nextUuid, calls, sess, responsesFile, client>>

save_prompt(name, content, description, category, now, rd, wr) ==
    /\ nextUuid - FirstUuid < MaxPrompts
    /\ LET prompt_id == uuid4
           new_prompt == new_prompt_dict(prompt_id, name, content, description,
                                         category, now)
       IN /\ promptsFile' = save_prompt_file(promptsFile, new_prompt, rd, wr)
          /\ nextUuid' = nextUuid + 1
          /\ calls' = [id \in DOMAIN calls \cup {prompt_id} |->
                          IF id = prompt_id THEN [n |-> 0, at |-> None]
                          ELSE calls[id]]
          /\ last' = [op |-> "save_prompt", now |-> now, raised |-> "",
                      ret |-> prompt_id]
    /\ io' = [rd |-> rd, wr |-> wr]
    /\ UNCHANGED <<requestsFile, sess, responsesFile, client>>

update_prompt_usage(prompt_id, now, rd, wr) ==
    /\ prompt_id \in DOMAIN calls => calls[prompt_id].n < MaxUses
    /\ promptsFile' = update_prompt_usage_file(promptsFile, prompt_id, now, rd, wr)
    /\ calls' = IF prompt_id \in DOMAIN calls
                THEN [calls EXCEPT ![prompt_id] = [n |-> @.n + 1, at |-> Some(now)]]
                ELSE calls
    /\ last' = [op |-> "update_prompt_usage", prompt_id |-> prompt_id,
                now |-> now, raised |-> "", ret |-> None]
    /\ io' = [rd |-> rd, wr |-> wr]
    /\ UNCHANGED <<requestsFile, nextUuid, sess, responsesFile, client>>

delete_prompt(prompt_id, rd, wr) ==
    /\ promptsFile' = delete_prompt_file(promptsFile, prompt_id, rd, wr)
    /\ calls' = [id \in DOMAIN calls \ {prompt_id} |-> calls[id]]
    /\ last' = [op |-> "delete_prompt", prompt_id |-> prompt_id,
                raised |-> "", ret |-> None]
    /\ io' = [rd |-> rd, wr |-> wr]
    /\ UNCHANGED <<requestsFile, nextUuid, sess, responsesFile, client>>

NextPrompts ==
    \/ get_saved_prompts(TRUE)
    \/ \E p \in SamplePrompts, now \in Instants :
            save_prompt(p[1], p[2], p[3], p[4], now, TRUE, TRUE)
    \/ \E prompt_id \in PromptArgIds, now \in Instants :
            update_prompt_usage(prompt_id, now, TRUE, TRUE)
    \/ \E prompt_id \in PromptArgIds : delete_prompt(prompt_id, TRUE, TRUE)

\* one session working on the saved prompts, every read and write succeeding
SpecPrompts == Init /\ [][NextPrompts]_vars

-----------------------------------------------------------------------------
(* log_request run by several sessions at once: the sessions share the      *)
(* DataService and the file, nothing serialises them, so the statements of *)
(* one call interleave with those of the other                              *)

\* lines 140-149: the id and the entry
log_request_build(s, request, request_json, now) ==
    /\ sess[s].pc = "idle"
    /\ sess' = [sess EXCEPT ![s] =
                    [pc |-> "built", request_id |-> uuid4,
                     log_entry |-> log_entry_dict(uuid4, now, request, request_json),
                     requests |-> <<>>]]
    /\ nextUuid' = nextUuid + 1
    /\ UNCHANGED <<requestsFile, promptsFile, last, calls, responsesFile, io, client>>

\* line 151: requests = self._load_json(self.requests_file)
log_request_load(s, rd) ==
    /\ sess[s].pc = "built"
    /\ sess' = [sess EXCEPT ![s].pc = "loaded",
                            ![s].requests = _load_json(requestsFile, rd)]
    /\ UNCHANGED <<requestsFile, promptsFile, nextUuid, last, calls, responsesFile, io, client>>

\* line 152: requests.append(log_entry.to_dict())
log_request_append(s) ==
    /\ sess[s].pc = "loaded"
    /\ sess' = [sess EXCEPT ![s].pc = "appended",
                            ![s].requests = Append(@, sess[s].log_entry)]
    /\ UNCHANGED <<requestsFile, promptsFile, nextUuid, last, calls, responsesFile, io, client>>

\* lines 153-155: self._save_json(self.requests_file, requests); return request_id
log_request_save(s, wr) ==
    /\ sess[s].pc = "appended"
    /\ requestsFile' = _save_json(requestsFile, sess[s].requests, wr)
    /\ sess' = [sess EXCEPT ![s].pc = "returned"]
    /\ UNCHANGED <<promptsFile, nextUuid, last, calls, responsesFile, io, client>>

NextSessions ==
    \/ \E s \in Sessions, request \in SampleRequests,
          request_json \in SamplePayloads, now \in Instants :
            log_request_build(s, request, request_json, now)
    \/ \E s \in Sessions : log_request_load(s, TRUE)
    \/ \E s \in Sessions : log_request_append(s)
    \/ \E s \in Sessions : log_request_save(s, TRUE)

\* two sessions, each calling log_request once on the empty request log
SpecSessions == Init /\ [][NextSessions]_vars

-----------------------------------------------------------------------------
(* Properties: the life cycle of a request-log entry *)

Populated(x) == x # None

HasId(list, id) == \E i \in DOMAIN list : list[i].id = id

\* C1: whatever store calls are made, an entry only ever changes from status
\* sent to completed or from sent to error; so a completed entry never becomes
\* error, an error entry never becomes completed, and an entry is changed at
\* most once after its creation.
C1_StatusMonotone ==
    [][\A i \in DOMAIN requestsFile :
          (i \in DOMAIN requestsFile' /\ requestsFile'[i] # requestsFile[i])
            => /\ requestsFile'[i].id = requestsFile[i].id
               /\ requestsFile[i].status = "sent"
               /\ requestsFile'[i].status \in {"completed", "error"}]_vars

\* C2: when two sessions run log_request interleaved on the empty request log,
\* both new entries are in the file once both calls have returned.
C2_BothEntriesPersisted ==
    (\A s \in Sessions : sess[s].pc = "returned")
        => \A s \in Sessions : HasId(requestsFile, sess[s].request_id)

\* C3: in every entry of the request log, the response fields are populated
\* only if the status is completed, error_message only if the status is error,
\* and duration_ms only if the status is completed or error.
C3_FieldsMatchStatus ==
    \A i \in DOMAIN requestsFile :
        LET e == requestsFile[i]
        IN /\ ( \/ Populated(e.response_id)
                \/ Populated(e.response_content)
                \/ Populated(e.prompt_tokens)
                \/ Populated(e.completion_tokens)
                \/ Populated(e.total_tokens)
                \/ e.search_results # <<>> ) => e.status = "completed"
           /\ Populated(e.error_message) => e.status = "error"
           /\ Populated(e.duration_ms) => e.status \in {"completed", "error"}

-----------------------------------------------------------------------------
(* Properties: what the request-log operations return and leave alone *)

\* the prompt log_request is to record for a request
FirstMessageContent(request) ==
    IF Len(request.messages) = 0 THEN "" ELSE Head(request.messages).content

\* C4: get_request_by_id called with the id log_request has just returned (no
\* store mutation in between) returns an entry whose status is sent, whose
\* model is the request's and whose prompt is the content of the request's
\* first message, or the empty string when the request has no messages.
C4_LogThenResolve ==
    [][(/\ last.op = "log_request"
        /\ last'.op = "get_request_by_id"
        /\ last'.request_id = last.ret)
          => /\ last'.raised = ""
             /\ last'.ret # None
             /\ last'.ret.val.id = last.ret
             /\ last'.ret.val.status = "sent"
             /\ last'.ret.val.model = last.request.model
             /\ last'.ret.val.prompt = FirstMessageContent(last.request)]_vars

\* C4's case: the entry of a request with two messages, logged second, is
\* looked up by the id log_request returned and carries the first message
C4_Witness ==
    /\ last.op = "get_request_by_id"
    /\ last.request_id = nextUuid - 1
    /\ Len(requestsFile) = 2
    /\ last.ret # None
    /\ last.ret.val.status = "sent"
    /\ last.ret.val.model = "sonar-pro"
    /\ last.ret.val.prompt = "p1"

\* C5: update_response and update_error called with an id that no entry has
\* raise nothing and leave the request log exactly as it was.
C5_MissingIdIsNoOp ==
    [][(/\ last'.op \in {"update_response", "update_error"}
        /\ ~HasId(requestsFile, last'.request_id))
          => /\ last'.raised = ""
             /\ requestsFile' = requestsFile]_vars

\* C5's case: an update with an id that no entry has, on a log of two entries
\* of which one is completed
C5_Witness ==
    /\ last.op \in {"update_response", "update_error"}
    /\ ~HasId(requestsFile, last.request_id)
    /\ Len(requestsFile) = 2
    /\ \E i \in DOMAIN requestsFile : requestsFile[i].status = "completed"

\* C6: no request-log operation removes an entry: the log never gets shorter,
\* an id that get_request_by_id resolves stays resolvable, and the id that
\* log_request returns is resolvable.
C6_NeverDeleted ==
    [][/\ Len(requestsFile') >= Len(requestsFile)
       /\ \A id \in RequestArgIds :
            get_request_by_id_of(requestsFile, id, TRUE) # None
              => get_request_by_id_of(requestsFile', id, TRUE) # None
       /\ last'.op = "log_request"
            => get_request_by_id_of(requestsFile', last'.ret, TRUE) # None]_vars

\* C6's case: the first entry logged is still there after a second one was
\* logged and it was itself updated twice
C6_Witness ==
    /\ Len(requestsFile) = 2
    /\ last.op = "update_error"
    /\ last.request_id = FirstUuid
    /\ get_request_by_id_of(requestsFile, FirstUuid, TRUE) # None
    /\ Populated(requestsFile[1].response_id)

-----------------------------------------------------------------------------
(* Properties: the usage statistics *)

\* the sum of f over a finite set of indices
RECURSIVE SumOver(_, _)
SumOver(S, f) ==
    IF S = {} THEN 0
    ELSE LET i == CHOOSE j \in S : TRUE IN f[i] + SumOver(S \ {i}, f)

\* C7: get_usage_statistics returns total_requests = the number of entries,
\* completed_requests = the number of entries with status completed,
\* total_tokens = the sum of total_tokens over all entries that have a token
\* count, whatever their status, and model_usage = per model the number of
\* entries with that model, whatever their status (the counts sum to
\* total_requests).
C7_StatsCounts ==
    last.op = "get_usage_statistics" =>
        /\ last.raised = ""
        /\ last.ret.total_requests = Cardinality(DOMAIN requestsFile)
        /\ last.ret.completed_requests
             = Cardinality({i \in DOMAIN requestsFile :
                            requestsFile[i].status = "completed"})
        /\ last.ret.total_tokens
             = SumOver({i \in DOMAIN requestsFile :
                            Populated(requestsFile[i].total_tokens)},
                       [i \in DOMAIN requestsFile |-> requestsFile[i].total_tokens.val])
        /\ DOMAIN last.ret.model_usage
             = {requestsFile[i].model : i \in DOMAIN requestsFile}
        /\ \A m \in DOMAIN last.ret.model_usage :
             last.ret.model_usage[m]
               = Cardinality({i \in DOMAIN requestsFile : requestsFile[i].model = m})
        /\ SumOver(DOMAIN last.ret.model_usage, last.ret.model_usage)
             = last.ret.total_requests

\* C7's case: statistics over two entries of the same model, one completed and
\* one in status error that still carries a token count, which is counted
C7_Witness ==
    /\ last.op = "get_usage_statistics"
    /\ last.raised = ""
    /\ last.ret.total_requests = 2
    /\ last.ret.completed_requests = 1
    /\ last.ret.total_tokens = 60
    /\ DOMAIN last.ret.model_usage = {"sonar-pro"}
    /\ last.ret.model_usage["sonar-pro"] = 2
    /\ \E i \in DOMAIN requestsFile :
          requestsFile[i].status = "error" /\ Truthy(requestsFile[i].total_tokens)

\* C8: get_usage_statistics never fails with a division by zero; success_rate
\* is completed_requests / total_requests * 100 when there are entries and 0
\* when there are none; avg_tokens_per_request is total_tokens /
\* completed_requests when there are completed entries and 0 when there are
\* none, also when total_tokens is not 0.
C8_StatsRatios ==
    last.op = "get_usage_statistics" =>
        /\ last.raised = ""
        /\ LET st == last.ret
               rate == st.success_rate
               avg == st.avg_tokens_per_request
           IN /\ rate.den > 0 /\ avg.den > 0
              /\ st.total_requests > 0 =>
                    rate.num * st.total_requests
                        = st.completed_requests * 100 * rate.den
              /\ st.total_requests = 0 => rate.num = 0
              /\ st.completed_requests > 0 =>
                    avg.num * st.completed_requests = st.total_tokens * avg.den
              /\ st.completed_requests = 0 => avg.num = 0

\* C8's case: statistics over a log with no completed entry whose entries in
\* status error carry token counts: the average is 0 and the rate is 0
C8_Witness ==
    /\ last.op = "get_usage_statistics"
    /\ last.raised = ""
    /\ last.ret.total_requests = 2
    /\ last.ret.completed_requests = 0
    /\ last.ret.total_tokens > 0
    /\ last.ret.avg_tokens_per_request.num = 0
    /\ last.ret.success_rate.num = 0

-----------------------------------------------------------------------------
(* Properties: the saved prompts *)

\* C9: a prompt saved by save_prompt starts with usage_count 0 and no
\* last_used; after n update_prompt_usage calls on it, and no other change to
\* it, usage_count is n and last_used is the instant of the latest call; and
\* usage_count never decreases while the prompt exists.
C9_UsageCounts ==
    /\ [](\A i \in DOMAIN promptsFile :
            LET p == promptsFile[i]
            IN p.id \in DOMAIN calls
                 => /\ p.usage_count = calls[p.id].n
                    /\ calls[p.id].n = 0 => p.last_used = None
                    /\ calls[p.id].n > 0
                         => p.last_used = Some(isoformat(calls[p.id].at.val)))
    /\ [][/\ \A i \in DOMAIN promptsFile, j \in DOMAIN promptsFile' :
               promptsFile'[j].id = promptsFile[i].id
                 => promptsFile'[j].usage_count >= promptsFile[i].usage_count
          /\ last'.op = "save_prompt"
               => \E j \in DOMAIN promptsFile' :
                    /\ promptsFile'[j].id = last'.ret
                    /\ promptsFile'[j].usage_count = 0
                    /\ promptsFile'[j].last_used = None]_vars

\* C9's case: a prompt saved by save_prompt has been used three times, the
\* last time at the earlier of the two instants
C9_Witness ==
    /\ last.op = "update_prompt_usage"
    /\ last.prompt_id >= FirstUuid
    /\ last.now = DateTime(1, 5)
    /\ \E i \in DOMAIN promptsFile :
          /\ promptsFile[i].id = last.prompt_id
          /\ promptsFile[i].usage_count = 3
          /\ promptsFile[i].last_used = Some(<<1, 5>>)

\* the list without the dicts that have the id
RECURSIVE Without(_, _)
Without(list, id) ==
    IF list = <<>> THEN <<>>
    ELSE IF Head(list).id = id THEN Without(Tail(list), id)
    ELSE <<Head(list)>> \o Without(Tail(list), id)

\* C10: update_prompt_usage and delete_prompt called with an id that no prompt
\* has raise nothing and leave the prompts as they were; delete_prompt called
\* with the id of a prompt removes the prompts with that id and leaves the
\* others, and their order, as they were.
C10_PromptFrame ==
    [][/\ (/\ last'.op \in {"update_prompt_usage", "delete_prompt"}
           /\ ~HasId(promptsFile, last'.prompt_id))
             => /\ last'.raised = ""
                /\ promptsFile' = promptsFile
       /\ (/\ last'.op = "delete_prompt"
           /\ HasId(promptsFile, last'.prompt_id))
             => /\ last'.raised = ""
                /\ ~HasId(promptsFile', last'.prompt_id)
                /\ Len(promptsFile') = Len(promptsFile) - 1
                /\ promptsFile' = Without(promptsFile, last'.prompt_id)]_vars

\* C10's case: the first default template has been deleted; the three other
\* templates and a saved prompt that has been used remain
C10_Witness ==
    /\ last.op = "delete_prompt"
    /\ last.prompt_id = 1
    /\ ~HasId(promptsFile, 1)
    /\ Len(promptsFile) = 4
    /\ promptsFile[1].id = 2
    /\ promptsFile[4].usage_count > 0

-----------------------------------------------------------------------------
(* models/api_models.py: the request sent to the API *)

\* the fields of the PerplexityRequest dataclass, in their order
RequestFields ==
    <<"model", "messages", "max_tokens", "temperature", "top_p",
      "presence_penalty", "frequency_penalty", "stream", "return_citations",
      "return_related_questions", "return_images">>

OptionalNumberFields ==
    {"max_tokens", "temperature", "top_p", "presence_penalty", "frequency_penalty"}

OptionalBoolFields ==
    {"stream", "return_citations", "return_related_questions", "return_images"}

\* a PerplexityRequest with every field: each is None or Some(value); the
\* float fields are counted in tenths (7 is 0.7)
FullRequest(model, messages, numbers, bools) ==
    [k \in {RequestFields[i] : i \in DOMAIN RequestFields} |->
        IF k = "model" THEN Some(model)
        ELSE IF k = "messages" THEN Some(messages)
        ELSE IF k \in OptionalNumberFields THEN numbers[k]
        ELSE bools[k]]

\* to_dict keeping a field when its value is truthy instead of not None
to_dict_truthy(request) ==
    [k \in {k \in DOMAIN request :
              /\ request[k] # None
              /\ k \in OptionalNumberFields => request[k].val # 0
              /\ k \in OptionalBoolFields => request[k].val = TRUE
              /\ k = "model" => request[k].val # ""
              /\ k = "messages" => request[k].val # <<>>} |-> request[k]]

\* PerplexityRequest.to_dict, lines 25-34: the fields that are not None, each
\* with its value (a None here would be a null on the wire); the messages
\* become dicts of role and content
to_dict(request) ==
    [k \in {k \in DOMAIN request : request[k] # None} |->
        IF k = "messages"
        THEN Some([i \in DOMAIN request[k].val |->
                    [role |-> request[k].val[i].role,
                     content |-> request[k].val[i].content]])
        ELSE request[k]]

-----------------------------------------------------------------------------
(* services/perplexity_service.py: parsing the body of a reply *)

\* JSON values as json() returns them: null, an object (a dict), an array (a
\* list), a string
JNull == [kind |-> "null"]
JObj(d) == [kind |-> "object", val |-> d]
JArr(l) == [kind |-> "array", val |-> l]
JStr(x) == [kind |-> "string", val |-> x]

\* the mark of a key the body does not have
Absent == [kind |-> "absent"]

\* dict.get(key, default)
Get(d, key, default) == IF key \in DOMAIN d THEN d[key] ELSE default

\* the empty dict
EmptyDict == [k \in {} |-> 0]

\* the dict of the keys that are not Absent
MakeBody(usage, choices, id, search_results, related_questions, citations) ==
    LET all == [usage |-> usage, choices |-> choices, id |-> id,
                search_results |-> search_results,
                related_questions |-> related_questions,
                citations |-> citations, model |-> JStr("sonar")]
    IN [k \in {k \in DOMAIN all : all[k] # Absent} |-> all[k]]

\* lines 95-100: the usage, or the AttributeError of .get on a value that is no dict
parse_usage(response_data) ==
    LET usage_data == Get(response_data, "usage", JObj(EmptyDict))
    IN IF usage_data.kind # "object" THEN [raised |-> "AttributeError"]
       ELSE [raised |-> "",
             value |-> PerplexityUsage(Get(usage_data.val, "prompt_tokens", 0),
                                       Get(usage_data.val, "completion_tokens", 0),
                                       Get(usage_data.val, "total_tokens", 0))]

\* lines 103-115: the choices, or the error of iterating a value that is no
\* list or of .get on an element that is no dict
parse_choices(response_data) ==
    LET choices_data == Get(response_data, "choices", JArr(<<>>))
    IN IF choices_data.kind # "array" THEN [raised |-> "TypeError"]
       ELSE IF \E i \in DOMAIN choices_data.val : choices_data.val[i].kind # "object"
       THEN [raised |-> "AttributeError"]
       ELSE [raised |-> "",
             value |->
                [i \in DOMAIN choices_data.val |->
                    LET choice_data == choices_data.val[i].val
                        message_data == Get(choice_data, "message", EmptyDict)
                    IN PerplexityChoice(
                          Get(choice_data, "index", 0),
                          Get(choice_data, "finish_reason", ""),
                          PerplexityMessage(Get(message_data, "role", ""),
                                            Get(message_data, "content", "")))]]

\* lines 118-126: the search results, [] when the key is missing or its value falsy
parse_search_results(response_data) ==
    IF /\ "search_results" \in DOMAIN response_data
       /\ response_data["search_results"].kind = "array"
       /\ response_data["search_results"].val # <<>>
    THEN LET data == response_data["search_results"].val
         IN IF \E i \in DOMAIN data : data[i].kind # "object"
            THEN [raised |-> "AttributeError"]
            ELSE [raised |-> "",
                  value |-> [i \in DOMAIN data |->
                                PerplexitySearchResult(Get(data[i].val, "title", ""),
                                                       Get(data[i].val, "url", ""),
                                                       Get(data[i].val, "snippet", ""))]]
    ELSE [raised |-> "", value |-> <<>>]

\* response_data.get(key) for the optional lists: None when the key is missing
OptionalList(response_data, key) ==
    IF key \in DOMAIN response_data THEN Some(response_data[key].val) ELSE None

\* _parse_response reading the required keys with response_data[key]
_parse_response_strict(response_data) ==
    LET usage == parse_usage(response_data)
        choices == parse_choices(response_data)
        search_results == parse_search_results(response_data)
    IN IF ~ ({"usage", "choices", "id"} \subseteq DOMAIN response_data)
       THEN [raised |-> "KeyError"]
       ELSE IF usage.raised # "" THEN [raised |-> usage.raised]
       ELSE IF choices.raised # "" THEN [raised |-> choices.raised]
       ELSE IF search_results.raised # "" THEN [raised |-> search_results.raised]
       ELSE [raised |-> "",
             value |->
                [id |-> response_data["id"].val,
                 object |-> Get(response_data, "object", JStr("")).val,
                 created |-> Get(response_data, "created", JStr(0)).val,
                 model |-> Get(response_data, "model", JStr("")).val,
                 choices |-> choices.value,
                 usage |-> usage.value,
                 search_results |-> IF search_results.value # <<>>
                                    THEN Some(search_results.value) ELSE None,
                 related_questions |-> OptionalList(response_data, "related_questions"),
                 citations |-> OptionalList(response_data, "citations")]]

\* _parse_response, lines 91-141: the PerplexityResponse, or the exception
\* re-raised at line 141
_parse_response(response_data) ==
    LET usage == parse_usage(response_data)
        choices == parse_choices(response_data)
        search_results == parse_search_results(response_data)
    IN IF usage.raised # "" THEN [raised |-> usage.raised]
       ELSE IF choices.raised # "" THEN [raised |-> choices.raised]
       ELSE IF search_results.raised # "" THEN [raised |-> search_results.raised]
       ELSE [raised |-> "",
             value |->
                [id |-> Get(response_data, "id", JStr("")).val,
                 object |-> Get(response_data, "object", JStr("")).val,
                 created |-> Get(response_data, "created", JStr(0)).val,
                 model |-> Get(response_data, "model", JStr("")).val,
                 choices |-> choices.value,
                 usage |-> usage.value,
                 search_results |-> IF search_results.value # <<>>
                                    THEN Some(search_results.value) ELSE None,
                 related_questions |-> OptionalList(response_data, "related_questions"),
                 citations |-> OptionalList(response_data, "citations")]]

-----------------------------------------------------------------------------
(* services/perplexity_service.py: one call of the API *)

UsageOptions ==
    {Absent, JNull,
     JObj([prompt_tokens |-> 10, completion_tokens |-> 20, total_tokens |-> 30])}

ChoicesOptions ==
    {Absent, JArr(<<JNull>>),
     JArr(<<JObj([index |-> 0, finish_reason |-> "stop",
                  message |-> [role |-> "assistant", content |-> "answer"]])>>)}

IdOptions == {Absent, JStr("resp-b")}

SearchOptions ==
    {Absent, JArr(<<>>), JArr(<<JObj([title |-> "t", url |-> "u", snippet |-> "s"])>>)}

RelatedOptions == {Absent, JArr(<<"q">>)}

CitationOptions == {Absent, JArr(<<"c">>)}

SampleBodies ==
    {MakeBody(u, c, i, s, q, t) :
        u \in UsageOptions, c \in ChoicesOptions, i \in IdOptions,
        s \in SearchOptions, q \in RelatedOptions, t \in CitationOptions}

\* what session.post can do: a reply (status 200 with a JSON body, status 200
\* with a body that is no JSON, another status) or an exception
Reply(status_code, body) == [kind |-> "response", status_code |-> status_code, body |-> body]
Raises(exception) == [kind |-> exception, status_code |-> 0, body |-> None]

SampleOutcomes ==
    {Reply(200, Some(b)) : b \in SampleBodies}
        \cup {Reply(200, None), Reply(401, None), Reply(500, None)}
        \cup {Raises("Timeout"), Raises("RequestException"), Raises("Exception")}

NoNumbers == [k \in OptionalNumberFields |-> None]
NoBools == [k \in OptionalBoolFields |-> None]

\* send_chat_request, lines 148-158: the request of one user message with the defaults
ChatRequest(prompt, model, max_tokens) ==
    FullRequest(model, <<PerplexityMessage("user", prompt)>>,
                [max_tokens |-> Some(max_tokens), temperature |-> Some(7),
                 top_p |-> Some(10), presence_penalty |-> Some(0),
                 frequency_penalty |-> Some(0)],
                [stream |-> Some(FALSE), return_citations |-> Some(TRUE),
                 return_related_questions |-> Some(TRUE), return_images |-> Some(FALSE)])

ClientRequests ==
    {FullRequest("sonar", <<PerplexityMessage("user", "p1")>>, NoNumbers, NoBools),
     ChatRequest("p2", "sonar-pro", 1000)}

\* send_request that posts again after a timeout
send_request_result_retrying(outcome) ==
    IF outcome.kind = "Timeout"
    THEN [pc |-> "posting", raised |-> "", ret |-> None, shown |-> <<"timed out">>]
    ELSE [pc |-> "returned", raised |-> "", ret |-> None, shown |-> <<"failed">>]

\* send_request without the handler of line 87
send_request_result_uncaught(outcome) ==
    IF outcome.kind = "response" /\ outcome.status_code = 200 /\ outcome.body # None
    THEN LET parsed == _parse_response(outcome.body.val)
         IN IF parsed.raised = ""
            THEN [pc |-> "returned", raised |-> "", ret |-> Some(parsed.value), shown |-> <<>>]
            ELSE [pc |-> "returned", raised |-> parsed.raised, ret |-> None,
                  shown |-> <<"Error parsing response">>]
    ELSE [pc |-> "returned", raised |-> "", ret |-> None, shown |-> <<"failed">>]

\* send_request, lines 71-89: what it does with the outcome of the post; it
\* returns in every branch
send_request_result(outcome) ==
    IF outcome.kind = "response"
    THEN IF outcome.status_code = 200
         THEN IF outcome.body = None
              \* response.json() raises: line 83 or line 87, by the version of requests
              THEN [pc |-> "returned", raised |-> "", ret |-> None,
                    shown |-> <<"Request failed or unexpected error">>]
              ELSE LET parsed == _parse_response(outcome.body.val)
                   IN IF parsed.raised = ""
                      THEN [pc |-> "returned", raised |-> "",
                            ret |-> Some(parsed.value), shown |-> <<>>]
                      ELSE [pc |-> "returned", raised |-> "", ret |-> None,
                            shown |-> <<"Error parsing response", "Unexpected error">>]
         ELSE [pc |-> "returned", raised |-> "", ret |-> None, shown |-> <<"API Error">>]
    ELSE IF outcome.kind = "Timeout"
    THEN [pc |-> "returned", raised |-> "", ret |-> None, shown |-> <<"Request timed out">>]
    ELSE IF outcome.kind = "RequestException"
    THEN [pc |-> "returned", raised |-> "", ret |-> None, shown |-> <<"Request failed">>]
    ELSE [pc |-> "returned", raised |-> "", ret |-> None, shown |-> <<"Unexpected error">>]

ClientUnchanged ==
    UNCHANGED <<requestsFile, promptsFile, nextUuid, last, calls, sess, responsesFile, io>>

Calling(via, request) ==
    [pc |-> "posting", via |-> via, request |-> request, payload |-> to_dict(request),
     posts |-> 0]

\* send_request, lines 57-63: the call, up to the post
send_request(request) ==
    /\ client.pc \in {"idle", "returned"}
    /\ client' = Calling("send_request", request)
    /\ ClientUnchanged

\* send_chat_request, lines 143-159
send_chat_request(prompt, model) ==
    /\ client.pc \in {"idle", "returned"}
    /\ client' = Calling("send_chat_request", ChatRequest(prompt, model, 1000))
    /\ ClientUnchanged

\* test_connection, lines 161-168
test_connection ==
    /\ client.pc \in {"idle", "returned"}
    /\ client' = Calling("test_connection", ChatRequest("Hello", "sonar", 50))
    /\ ClientUnchanged

\* lines 65-69: the post and its outcome
session_post(outcome) ==
    /\ client.pc = "posting"
    /\ client' = [pc |-> "received", via |-> client.via, request |-> client.request,
                  payload |-> client.payload, posts |-> client.posts + 1,
                  outcome |-> outcome]
    /\ ClientUnchanged

\* lines 71-89: the return; test_connection returns whether the response is not None
send_request_return ==
    /\ client.pc = "received"
    /\ LET result == send_request_result(client.outcome)
       IN client' = [pc |-> result.pc, via |-> client.via, request |-> client.request,
                     payload |-> client.payload, posts |-> client.posts,
                     outcome |-> client.outcome, raised |-> result.raised,
                     ret |-> result.ret, shown |-> result.shown,
                     connected |-> result.ret # None]
    /\ ClientUnchanged

NextClient ==
    \/ \E request \in ClientRequests : send_request(request)
    \/ \E prompt \in {"p1"}, model \in SampleModels : send_chat_request(prompt, model)
    \/ test_connection
    \/ \E outcome \in SampleOutcomes : session_post(outcome)
    \/ send_request_return

SpecClient == Init /\ [][NextClient]_vars

-----------------------------------------------------------------------------
(* Properties of the API client *)

Returned == client.pc = "returned"

GotBody ==
    /\ Returned
    /\ client.outcome.kind = "response"
    /\ client.outcome.status_code = 200
    /\ client.outcome.body # None

\* every field the body has is of the shape the parser reads: usage an
\* object, choices and search_results lists of objects
WellShaped(body) ==
    /\ "usage" \in DOMAIN body => body["usage"].kind = "object"
    /\ "choices" \in DOMAIN body =>
          /\ body["choices"].kind = "array"
          /\ \A i \in DOMAIN body["choices"].val : body["choices"].val[i].kind = "object"
    /\ "search_results" \in DOMAIN body /\ body["search_results"].kind = "array" =>
          \A i \in DOMAIN body["search_results"].val :
              body["search_results"].val[i].kind = "object"

OptionalsAbsent(body, response) ==
    /\ "search_results" \notin DOMAIN body => response.search_results = None
    /\ "related_questions" \notin DOMAIN body => response.related_questions = None
    /\ "citations" \notin DOMAIN body => response.citations = None

Succeeded ==
    /\ client.outcome.kind = "response"
    /\ client.outcome.status_code = 200
    /\ client.outcome.body # None
    /\ WellShaped(client.outcome.body.val)

\* the class of failure a returned value names, "" when it names none
FailureClass(value) == IF "failure" \in DOMAIN value THEN value.failure ELSE ""

ExpectedClass(outcome) ==
    IF outcome.kind = "Timeout" THEN {"Timeout"}
    ELSE IF outcome.kind = "RequestException" THEN {"Network"}
    ELSE IF outcome.kind = "response" /\ outcome.status_code # 200 THEN {"Http"}
    ELSE IF outcome.kind = "response" THEN {"Parse"}
    ELSE {"Timeout", "Network", "Http", "Parse"}

C13_OnePost ==
    /\ client.pc \in {"posting", "received", "returned"} => client.posts <= 1
    /\ client.pc \in {"received", "returned"} => client.posts = 1

\* a call that timed out has returned
C13_Witness ==
    /\ Returned
    /\ client.outcome.kind = "Timeout"
    /\ client.posts = 1

-----------------------------------------------------------------------------
(* Serialization of every shape of request *)

NumberOptions == {None, Some(0), Some(7)}
BoolOptions == {None, Some(FALSE), Some(TRUE)}

PayloadRequests ==
    {FullRequest("sonar", messages, numbers, bools) :
        messages \in {<<>>, <<PerplexityMessage("user", "p1")>>},
        numbers \in [OptionalNumberFields -> NumberOptions],
        bools \in [OptionalBoolFields -> BoolOptions]}

\* request.to_dict() on a request of any shape, as at line 63 of the client
serialize(request) ==
    /\ client.pc = "idle"
    /\ client' = [pc |-> "serialized", request |-> request, payload |-> to_dict(request)]
    /\ ClientUnchanged

NextPayload == client.pc = "idle" /\ \E request \in PayloadRequests : serialize(request)

SpecPayload == Init /\ [][NextPayload]_vars

\* C14: the payload holds model and messages and exactly the optional
\* fields set on the request, each with the value set (0 and false
\* included), and no key holds null
C14_PayloadKeys ==
    client.pc = "serialized" =>
        LET request == client.request
            payload == client.payload
        IN /\ DOMAIN payload =
                {"model", "messages"}
                    \cup {k \in OptionalNumberFields \cup OptionalBoolFields :
                            request[k] # None}
           /\ \A k \in DOMAIN payload : payload[k] # None
           /\ \A k \in DOMAIN payload \ {"messages"} : payload[k] = request[k]
           /\ Len(payload["messages"].val) = Len(request["messages"].val)

\* a request with temperature 0.0 and stream false, and no max_tokens, has
\* been serialized
C14_Witness ==
    /\ client.pc = "serialized"
    /\ client.request["temperature"] = Some(0)
    /\ client.request["stream"] = Some(FALSE)
    /\ client.request["max_tokens"] = None
    /\ "temperature" \in DOMAIN client.payload
    /\ "stream" \in DOMAIN client.payload
    /\ "max_tokens" \notin DOMAIN client.payload

-----------------------------------------------------------------------------
(* services/perplexity_service.py: the API key and the base URL *)

DefaultBaseUrl == "https://api.perplexity.ai"

\* st.secrets: reading it raises (no secrets file), or it has no perplexity
\* section, or it has one, with or without api_key and base_url
SecretStores ==
    {[state |-> "raises", api_key |-> None, base_url |-> None],
     [state |-> "no section", api_key |-> None, base_url |-> None]}
        \cup [state : {"section"}, api_key : {None, Some("sk-secret")},
              base_url : {None, Some("https://secret")}]

\* the environment: PERPLEXITY_API_KEY unset, empty or set, and a base URL
\* variable, which the client never reads
Environments ==
    [api_key : {None, Some(""), Some("sk-env")}, base_url : {None, Some("https://env")}]

\* data/config.json: missing, not JSON, or a dict with or without the keys
ConfigFiles ==
    {[state |-> "missing", api_key |-> None, base_url |-> None],
     [state |-> "corrupt", api_key |-> None, base_url |-> None]}
        \cup [state : {"dict"}, api_key : {None, Some("sk-file")},
              base_url : {None, Some("https://file")}]

\* _get_api_key, lines 22-46
_get_api_key(secrets, env, config) ==
    IF secrets.state = "raises" THEN ""
    ELSE IF secrets.state = "section"
    THEN IF secrets.api_key # None THEN secrets.api_key.val ELSE ""
    ELSE IF env.api_key # None /\ env.api_key.val # "" THEN env.api_key.val
    ELSE IF config.state = "dict"
    THEN IF config.api_key # None THEN config.api_key.val ELSE ""
    ELSE ""

\* _get_base_url, lines 48-55
_get_base_url(secrets) ==
    IF secrets.state = "section" /\ secrets.base_url # None
    THEN secrets.base_url.val
    ELSE DefaultBaseUrl

\* __init__, lines 9-20: neither lookup raises
PerplexityService_init(secrets, env, config) ==
    /\ client.pc = "idle"
    /\ client' = [pc |-> "constructed", secrets |-> secrets, env |-> env,
                  config |-> config, raised |-> "",
                  base_url |-> _get_base_url(secrets),
                  api_key |-> _get_api_key(secrets, env, config)]
    /\ ClientUnchanged

NextConfig ==
    \E secrets \in SecretStores, env \in Environments, config \in ConfigFiles :
        PerplexityService_init(secrets, env, config)

SpecConfig == Init /\ [][NextConfig]_vars

\* the first of the values that is held, the default when none is
FirstHeld(values, default) ==
    IF \E i \in DOMAIN values : values[i] # None /\ values[i].val # ""
    THEN values[CHOOSE i \in DOMAIN values :
                    /\ values[i] # None /\ values[i].val # ""
                    /\ \A j \in 1 .. i - 1 : values[j] = None \/ values[j].val = ""].val
    ELSE default

\* C15: the API key and the base URL of a constructed client are each the
\* value of the first of secret store, environment, config file that holds
\* one, else the default (the empty string for the key), and construction
\* raises nothing
C15_ResolutionOrder ==
    client.pc = "constructed" =>
        /\ client.raised = ""
        /\ client.api_key =
              FirstHeld(<<client.secrets.api_key, client.env.api_key,
                          client.config.api_key>>, "")
        /\ client.base_url =
              FirstHeld(<<client.secrets.base_url, client.env.base_url,
                          client.config.base_url>>, DefaultBaseUrl)

-----------------------------------------------------------------------------
(* The queries over a log whose timestamps differ *)

\* instants with and without microseconds, logged in any order
QueryInstants == {DateTime(1, 0), DateTime(1, 5), DateTime(2, 0)}

QueryLimits == 0 .. MaxLog + 1

NextQuery ==
    \/ \E request \in SampleRequests, now \in QueryInstants :
            log_request(request, "{request}", now, TRUE, TRUE)
    \/ \E limit \in QueryLimits : get_recent_requests(limit, TRUE)
    \/ \E model \in SampleModels, limit \in QueryLimits :
            get_requests_by_model(model, limit, TRUE)

SpecQuery == Init /\ [][NextQuery]_vars

TimeOf(entry) == fromisoformat(entry.timestamp)

\* ret is the limit newest entries of pool, newest first
NewestOf(pool, ret, limit) ==
    /\ Len(ret) = IF limit < Len(pool) THEN limit ELSE Len(pool)
    /\ \A i \in DOMAIN ret : \E j \in DOMAIN pool : pool[j] = ret[i]
    /\ \A i, j \in DOMAIN ret : i # j => ret[i].id # ret[j].id
    /\ \A i \in 1 .. Len(ret) - 1 : DateTimeGE(TimeOf(ret[i]), TimeOf(ret[i + 1]))
    /\ \A j \in DOMAIN pool :
          (\A i \in DOMAIN ret : ret[i].id # pool[j].id) =>
              \A i \in DOMAIN ret : DateTimeGE(TimeOf(ret[i]), TimeOf(pool[j]))

\* C16: get_recent_requests(limit) returns the limit newest entries of the
\* log, newest first, get_requests_by_model(model, limit) the limit newest
\* among the entries of that model, and neither changes the file
C16_QueryNewest ==
    [][/\ last'.op = "get_recent_requests" =>
            /\ NewestOf(requestsFile, last'.ret, last'.limit)
            /\ requestsFile' = requestsFile
       /\ last'.op = "get_requests_by_model" =>
            /\ NewestOf(SelectSeq(requestsFile, LAMBDA r : r.model = last'.model),
                        last'.ret, last'.limit)
            /\ \A i \in DOMAIN last'.ret : last'.ret[i].model = last'.model
            /\ requestsFile' = requestsFile]_vars

\* the log holds an older entry then a newer one of the same second, and the
\* query with limit 1 has returned the newer
C16_Witness ==
    /\ last.op = "get_recent_requests"
    /\ last.limit = 1
    /\ Len(requestsFile) = 2
    /\ requestsFile[1].timestamp = isoformat(DateTime(1, 0))
    /\ requestsFile[2].timestamp = isoformat(DateTime(1, 5))
    /\ last.ret = <<requestsFile[2]>>

-----------------------------------------------------------------------------
(* Frame of the two updates *)

KeptFields == {"id", "timestamp", "model", "prompt", "request_json"}

\* C17: update_response and update_error with an id the log holds change
\* only the entry with that id, and leave its id, timestamp, model, prompt
\* and request_json as they were; the other entries, their number and
\* their order are unchanged
C17_UpdateFrame ==
    [][last'.op \in {"update_response", "update_error"}
       /\ FirstIndex(requestsFile, last'.request_id) # 0 =>
            LET at == FirstIndex(requestsFile, last'.request_id)
            IN /\ Len(requestsFile') = Len(requestsFile)
               /\ \A i \in DOMAIN requestsFile \ {at} : requestsFile'[i] = requestsFile[i]
               /\ DOMAIN requestsFile'[at] = DOMAIN requestsFile[at]
               /\ \A k \in KeptFields : requestsFile'[at][k] = requestsFile[at][k]]_vars

\* the second of two entries has been completed, the first is as logged
C17_Witness ==
    /\ last.op = "update_response"
    /\ Len(requestsFile) = 2
    /\ requestsFile[2].id = last.request_id
    /\ requestsFile[2].status = "completed"
    /\ requestsFile[2].model = "sonar-pro"
    /\ requestsFile[1].status = "sent"

-----------------------------------------------------------------------------
(* The saved responses, and the store when reads and writes can fail *)

MaxIds == 2

SampleResponseData == {"{response}"}

\* save_response, lines 305-311: the dict appended
response_entry_dict(id, request_id, prompt_name, now, response_data) ==
    [id |-> id, request_id |-> request_id, prompt_name |-> prompt_name,
     saved_at |-> isoformat(now), response_data |-> response_data]

\* save_response, lines 303-314: load, append, save
save_response_file(content, response_entry, rd, wr) ==
    LET responses == _load_json(content, rd)
    IN _save_json(content, Append(responses, response_entry), wr)

\* delete_response, lines 324-326: load, filter, save
delete_response_file(content, response_id, rd, wr) ==
    LET responses == _load_json(content, rd)
        kept == SelectSeq(responses, LAMBDA r : r.id # response_id)
    IN _save_json(content, kept, wr)

save_response(request_id, response_data, prompt_name, now, rd, wr) ==
    /\ nextUuid - FirstUuid < MaxIds
    /\ LET response_entry ==
               response_entry_dict(uuid4, request_id, prompt_name, now, response_data)
       IN responsesFile' = save_response_file(responsesFile, response_entry, rd, wr)
    /\ nextUuid' = nextUuid + 1
    /\ last' = [op |-> "save_response", request_id |-> request_id,
                raised |-> "", ret |-> None]
    /\ io' = [rd |-> rd, wr |-> wr]
    /\ UNCHANGED <<requestsFile, promptsFile, calls, sess, client>>

delete_response(response_id, rd, wr) ==
    /\ responsesFile' = delete_response_file(responsesFile, response_id, rd, wr)
    /\ last' = [op |-> "delete_response", response_id |-> response_id,
                raised |-> "", ret |-> None]
    /\ io' = [rd |-> rd, wr |-> wr]
    /\ UNCHANGED <<requestsFile, promptsFile, nextUuid, calls, sess, client>>

\* every mutating operation of the store, its read and its write each
\* succeeding or failing; at most MaxIds ids are issued and no prompt is
\* used more than MaxUses times
NextIO ==
    \E rd \in BOOLEAN, wr \in BOOLEAN :
        \/ /\ nextUuid - FirstUuid < MaxIds
           /\ log_request(PerplexityRequest("sonar", <<>>), "{request}",
                          ConstructedAt, rd, wr)
        \/ \E request_id \in RequestArgIds, response \in {PerplexityResponse("resp-a", <<>>, PerplexityUsage(0, 0, 0), None)} :
                update_response(request_id, response, "{response}", 7, rd, wr)
        \/ \E request_id \in RequestArgIds :
                update_error(request_id, "Request timed out", 7, rd, wr)
        \/ save_prompt("mine", "tell me", "", "Custom", ConstructedAt, rd, wr)
        \/ /\ \A i \in DOMAIN promptsFile : promptsFile[i].usage_count < MaxUses
           /\ update_prompt_usage(1, ConstructedAt, rd, wr)
        \/ delete_prompt(1, rd, wr)
        \/ \E response_data \in SampleResponseData :
                save_response(0, response_data, "mine", ConstructedAt, rd, wr)
        \/ \E response_id \in RequestArgIds : delete_response(response_id, rd, wr)

SpecIO == Init /\ [][NextIO]_vars

MutatingOps ==
    {"log_request", "update_response", "update_error", "save_prompt",
     "update_prompt_usage", "delete_prompt", "save_response", "delete_response"}

\* every entry of before, but the one deleted, has its id in after
KeepsIds(before, after, deleted) ==
    \A i \in DOMAIN before :
        before[i].id # deleted => \E j \in DOMAIN after : after[j].id = before[i].id

\* C18: a mutating operation whose read of the file fails loses none of the
\* entries the file held before the call (but the one a delete names)
C18_ReadFailureKeepsEntries ==
    [][io'.rd = FALSE /\ last'.op \in MutatingOps =>
          /\ KeepsIds(requestsFile, requestsFile', 0)
          /\ KeepsIds(promptsFile, promptsFile',
                      IF last'.op = "delete_prompt" THEN last'.prompt_id ELSE 0)
          /\ KeepsIds(responsesFile, responsesFile',
                      IF last'.op = "delete_response" THEN last'.response_id ELSE 0)]_vars

====
